---- MODULE Spec2Model ----
(***************************************************************************)
(* A model of two commands of the LSP plugin:                              *)
(*   plugin/rename_file.py  LspRenameFileCommand  (specification SpecRename)*)
(*   plugin/goto.py         LspGotoCommand        (specification SpecGoto) *)
(* Every handler of the code (a command's run, a response callback, a      *)
(* promise continuation) is one action.  The calls a handler makes are     *)
(* recorded, in order, in a call log.                                      *)
(***************************************************************************)
EXTENDS Integers, Sequences, FiniteSets, TLC

\* ------------------------------------------------------------------ bounds
\* the sessions attached to the window of a rename
NumSessions == 2
\* the sessions attached to the view of a goto
NumViewSessions == 3

Sessions == 1..NumSessions
ViewSessions == 1..NumViewSessions

\* ------------------------------------------------------------------- paths
\* A path string is the sequence of its components; an absolute path starts
\* with the component "/", the empty string is <<>>, and "." is <<".">>.
EmptyStr == <<>>
Dot      == <<".">>
Root     == <<"/">>
DirA     == <<"/", "a">>
FileB    == <<"/", "a", "b.txt">>
FileC    == <<"/", "a", "c.txt">>
\* the working directory relative paths are resolved against
Cwd      == DirA

\* new_name can be FILE_NAME.xy, ./DIR/FILE_NAME.xy or ../FILE_NAME
NewNames == { <<"c.txt">>, <<".", "sub", "c.txt">>, <<"..", "a">> }

IsAbs(p) == Len(p) > 0 /\ p[1] = "/"

\* pathlib: Path(p).parent
Parent(p) ==
    IF p = EmptyStr \/ p = Dot THEN Dot
    ELSE IF p = Root THEN Root
    ELSE IF Len(p) = 1 THEN Dot
    ELSE SubSeq(p, 1, Len(p) - 1)

\* pathlib: Path(p) / name
Join(p, name) ==
    IF IsAbs(name) THEN name
    ELSE IF p = Dot \/ p = EmptyStr THEN name
    ELSE p \o name

RECURSIVE Collapse(_, _, _)
\* os.path.normpath's component loop: "." is dropped, ".." removes the
\* component before it, is dropped at the root and kept at the start of a
\* relative path
Collapse(abs, comps, stack) ==
    IF comps = <<>> THEN stack
    ELSE LET c == Head(comps)
             rest == Tail(comps)
         IN  IF c = "." THEN Collapse(abs, rest, stack)
             ELSE IF c = ".."
                  THEN IF stack /= <<>> /\ stack[Len(stack)] /= ".."
                       THEN Collapse(abs, rest, SubSeq(stack, 1, Len(stack) - 1))
                       ELSE IF abs THEN Collapse(abs, rest, stack)
                       ELSE Collapse(abs, rest, Append(stack, c))
                  ELSE Collapse(abs, rest, Append(stack, c))

\* os.path.normpath
Normpath(p) ==
    IF IsAbs(p) THEN Root \o Collapse(TRUE, Tail(p), <<>>)
    ELSE LET s == Collapse(FALSE, p, <<>>)
         IN  IF s = <<>> THEN Dot ELSE s

\* new_path = os.path.normpath(Path(old_path).parent / new_name)
NewPath(old_path, new_name) == Normpath(Join(Parent(old_path), new_name))

\* the file-system entry a non-empty path string names
Abs(p) == IF IsAbs(p) THEN Normpath(p) ELSE Normpath(Cwd \o p)

\* urljoin("file:", path): "file:" for the empty string, else the path made
\* absolute against the root of the file: scheme
Uri(p) ==
    IF p = EmptyStr THEN <<"file:">>
    ELSE <<"file:">> \o Normpath(IF IsAbs(p) THEN p ELSE Root \o p)

RenameFilesParams(old_path, new_path) ==
    [oldUri |-> Uri(old_path), newUri |-> Uri(new_path)]

\* ------------------------------------------------------------------- state
VARIABLES
    files,       \* file system: the absolute paths that are files
    files0,      \* the files there were when the command was invoked
    dirs,        \* file system: the absolute paths that are directories
    docs,        \* open documents of the window: records [path, sel]
    docs0,       \* the open documents there were when the command was invoked
    created,     \* history: the destination was created while the request was in flight
    activeView,  \* window.active_view(): "none", "buffer" (no file name), "file"
    bufferName,  \* the name of the active unsaved buffer
    attached,    \* the sessions attached to the window
    willCap,     \* sessions advertising workspace.fileOperations.willRename
    didCap,      \* sessions advertising workspace.fileOperations.didRename
    argDirs,     \* the command's dirs argument (<<>> when absent)
    argFiles,    \* the command's files argument (<<>> when absent)
    argNewName,  \* the command's new_name argument
    pc,          \* where the rename operation stands
    req,         \* the willRenameFiles request in flight and its closure
    edit,        \* the workspace edit's application: "none", "pending", "applied"
    reopen,      \* the promise of open_file_uri and restore_regions' closure
    log          \* the recorded call sequence

\* LspGotoCommand
VARIABLES
    gotoCap,     \* view sessions advertising the command's capability
    method,      \* the command: its method names its subclass
    position,    \* get_position(view, event, point); NoPosition for None
    fallback,    \* the command's fallback argument
    hasWindow,   \* does view.window() give a window
    gpc,         \* where the goto dispatch stands
    sent,        \* the requests sent, in the order they were sent
    last_session,\* the session run binds into the continuation
    responses,   \* the promises of the requests: a response or Unresolved
    results,     \* the list _handle_responses_async hands on
    handled,     \* how often _handle_responses_async ran
    picker,      \* the LocationPicker set_timeout schedules
    outOfOrder,  \* history: a request resolved before an earlier one had
    glog         \* the recorded call sequence of the view and window

gvars == <<gotoCap, method, position, fallback, hasWindow, gpc, sent,
           last_session, responses, results, handled, picker, outOfOrder, glog>>

rvars == <<files, files0, dirs, docs, docs0, created, activeView, bufferName, attached, willCap, didCap,
           argDirs, argFiles, argNewName, pc, req, edit, reopen, log>>

vars == <<rvars, gvars>>

\* get_position gives None
NoPosition == -1

Regions == {"r1", "r2"}
\* the selection of a freshly opened document
FreshSel == {"r0"}

NoReq == [state |-> "none", session |-> 0, old_path |-> EmptyStr,
          new_path |-> EmptyStr, params |-> RenameFilesParams(EmptyStr, EmptyStr)]
NoReopen == [state |-> "none", path |-> EmptyStr, old_regions |-> {}]

RenameInit ==
    /\ files \in SUBSET {FileB, FileC}
    /\ files0 = files
    /\ dirs = {Root, DirA}
    /\ activeView \in {"none", "buffer", "file"}
    /\ \E open \in BOOLEAN, sel \in {{"r1"}, Regions} :
          /\ activeView = "file" => open
          /\ activeView = "none" => ~open
          /\ ~open => sel = Regions
          /\ docs = IF open THEN {[path |-> FileB, sel |-> sel]} ELSE {}
    /\ docs0 = docs
    /\ created = FALSE
    /\ bufferName = "untitled"
    /\ attached = Sessions
    /\ willCap \in SUBSET Sessions
    /\ didCap \in SUBSET Sessions
    /\ argDirs \in {<<>>, <<DirA>>}
    /\ argFiles \in {<<>>, <<FileB>>}
    \* the sidebar gives dirs for "Rename Folder" or files for "Rename File"
    /\ (argDirs = <<>> \/ argFiles = <<>>)
    /\ argNewName \in NewNames
    /\ pc = "idle"
    /\ req = NoReq
    /\ edit = "none"
    /\ reopen = NoReopen
    /\ log = <<>>

\* ------------------------------------------------- collaborators' interfaces
\* LspWindowCommand.session(): the first attached session, in enumeration
\* order, that advertises the command's capability; 0 when there is none
FirstSession(att, cap) ==
    IF att \cap cap = {} THEN 0
    ELSE CHOOSE s \in att \cap cap : \A t \in att \cap cap : s <= t

\* LspWindowCommand.session_by_name(name); 0 when no such session is attached
SessionByName(att, name) == IF name \in att THEN name ELSE 0

RECURSIVE InOrder(_)
\* LspWindowCommand.sessions(): the attached sessions in enumeration order
InOrder(S) ==
    IF S = {} THEN <<>>
    ELSE LET m == CHOOSE s \in S : \A t \in S : s <= t
         IN  <<m>> \o InOrder(S \ {m})

\* os.path.exists
Exists(w, p) == p /= EmptyStr /\ Abs(p) \in (w.files \cup w.dirs)

\* os.path.isfile
IsFile(w, p) == p /= EmptyStr /\ Abs(p) \in w.files

\* window.find_open_file(path): is there an open document for the path
FindOpenFile(w, p) == p /= EmptyStr /\ \E d \in w.docs : d.path = Abs(p)

RECURSIVE Ancestors(_)
Ancestors(p) == IF p = Root THEN {Root} ELSE {p} \cup Ancestors(Parent(p))

\* os.makedirs(path): the directory and every missing ancestor
MakeDirs(w, p) == [w EXCEPT !.dirs = @ \cup Ancestors(Abs(p)),
                            !.log = Append(@, <<"makedirs", p, 0>>)]

IsPrefix(p, q) == Len(p) <= Len(q) /\ SubSeq(q, 1, Len(p)) = p
Rebase(q, from, to) == to \o SubSeq(q, Len(from) + 1, Len(q))

\* os.rename(old, new) raises when the source does not exist, when a file
\* would replace a directory or a directory a file or a directory that is
\* not empty, and when a directory would move below itself; on Windows it
\* raises whenever the destination exists
CanRename(w, old, new) ==
    /\ Exists(w, old)
    /\ ~w.posix => ~Exists(w, new)
    /\ Abs(new) \in w.dirs =>
          /\ Abs(old) \in w.dirs
          /\ \A q \in w.files \cup w.dirs : IsPrefix(Abs(new), q) => q = Abs(new)
    /\ Abs(new) \in w.files => Abs(old) \in w.files
    /\ IsPrefix(Abs(old), Abs(new)) => Abs(old) = Abs(new)

\* os.rename(old, new): the entry, and everything below a directory, moves; a
\* file already at the destination is replaced
OsRename(w, old, new) ==
    LET o == Abs(old)
        n == Abs(new)
        Move(S) == {IF IsPrefix(o, q) THEN Rebase(q, o, n) ELSE q : q \in S}
    IN  [w EXCEPT !.files = Move(@ \ {n}), !.dirs = Move(@),
                  !.log = Append(@, <<"os.rename", old, new>>)]

\* ------------------------------------------------- LspRenameFileCommand
\* get_old_path(dirs, files, view)
get_old_path(d, f, view) ==
    IF d /= <<>> THEN d[1]
    ELSE IF f /= <<>> THEN f[1]
    ELSE IF view = "file" THEN FileB
    ELSE EmptyStr

\* as DestinationExists, with os.path.isfile for os.path.exists
DestinationIsFile(w, new_path) == IsFile(w, new_path)

\* the pre-flight check of run: os.path.exists(new_path)
DestinationExists(w, new_path) == Exists(w, new_path)

\* as rename_path, with the document closed after the file system rename
rename_then_close(w, old_path, new_path) ==
    LET view == FindOpenFile(w, old_path)
        old_regions ==
            IF view THEN (CHOOSE d \in w.docs : d.path = Abs(old_path)).sel
            ELSE {}
        new_dir == Parent(new_path)
        w1 == IF ~Exists(w, new_dir) THEN MakeDirs(w, new_dir) ELSE w
    IN  IF ~CanRename(w1, old_path, new_path)
        THEN [w1 EXCEPT !.raised = TRUE,
                        !.log = Append(@, <<"os.rename raised", old_path, new_path>>)]
        ELSE LET w2 == OsRename(w1, old_path, new_path)
                 w3 == IF view
                       THEN [w2 EXCEPT !.docs = {d \in @ : d.path /= Abs(old_path)},
                                       !.log = Append(@, <<"close", old_path, 0>>)]
                       ELSE w2
             IN  IF IsFile(w3, new_path)
                 THEN [w3 EXCEPT !.reopen = [state |-> "pending", path |-> new_path,
                                            old_regions |-> old_regions],
                                 !.log = Append(@, <<"open_file_uri", new_path, 0>>)]
                 ELSE w3

\* rename_path(old_path, new_path) on the world w = [files, dirs, docs,
\* reopen, log, raised]
rename_path(w, old_path, new_path) ==
    LET view == FindOpenFile(w, old_path)
        old_regions ==
            IF view THEN (CHOOSE d \in w.docs : d.path = Abs(old_path)).sel
            ELSE {}
        w1 == IF view
              THEN [w EXCEPT !.docs = {d \in @ : d.path /= Abs(old_path)},
                             !.log = Append(@, <<"close", old_path, 0>>)]
              ELSE w
        new_dir == Parent(new_path)
        w2 == IF ~Exists(w1, new_dir) THEN MakeDirs(w1, new_dir) ELSE w1
    IN  IF ~CanRename(w2, old_path, new_path)
        THEN [w2 EXCEPT !.raised = TRUE,
                        !.log = Append(@, <<"os.rename raised", old_path, new_path>>)]
        ELSE LET w3 == OsRename(w2, old_path, new_path)
             IN  IF IsFile(w3, new_path)
                 THEN [w3 EXCEPT !.reopen = [state |-> "pending", path |-> new_path,
                                            old_regions |-> old_regions],
                                 !.log = Append(@, <<"open_file_uri", new_path, 0>>)]
                 ELSE w3

RECURSIVE SendAll(_, _, _)
SendAll(lg, ss, params) ==
    IF ss = <<>> THEN lg
    ELSE SendAll(Append(lg, <<"didRenameFiles", Head(ss), params>>), Tail(ss), params)

\* as notify_did_rename, without the has_capability filter
notify_every_session(w, att, dcap, params) ==
    [w EXCEPT !.log = SendAll(@, InOrder(att), params)]

\* notify_did_rename(rename_file_params)
notify_did_rename(w, att, dcap, params) ==
    LET sessions == SelectSeq(InOrder(att), LAMBDA s : s \in dcap)
    IN  [w EXCEPT !.log = SendAll(@, sessions, params)]

\* as RenameAndNotify, without the call of notify_did_rename
RenameWithoutNotify(w, att, dcap, old_path, new_path, params) ==
    rename_path(w, old_path, new_path)

\* rename_path, then notify_did_rename unless rename_path raised
RenameAndNotify(w, att, dcap, old_path, new_path, params) ==
    LET w1 == rename_path(w, old_path, new_path)
    IN  IF w1.raised THEN w1 ELSE notify_did_rename(w1, att, dcap, params)

\* posix: whether os.rename replaces a file at the destination (POSIX) or
\* raises (Windows)
World == [files |-> files, dirs |-> dirs, docs |-> docs, reopen |-> reopen,
          log |-> log, raised |-> FALSE, posix |-> TRUE]

Platforms == BOOLEAN

Commit(w) ==
    /\ files' = w.files
    /\ dirs' = w.dirs
    /\ docs' = w.docs
    /\ reopen' = w.reopen
    /\ log' = w.log

Inputs == <<files0, docs0, created, activeView, attached, willCap, didCap, argDirs, argFiles, argNewName>>

\* as Run, with rename_path called when the request is sent instead of in
\* its response callback
RunRenamingAtOnce ==
    /\ pc = "idle"
    /\ LET session == FirstSession(attached, willCap)
           old_path == get_old_path(argDirs, argFiles, activeView)
           new_path == NewPath(old_path, argNewName)
           params == RenameFilesParams(old_path, new_path)
       IN  IF DestinationExists(World, new_path)
           THEN /\ log' = Append(log, <<"status_message", "Unable to Rename. Already exists", 0>>)
                /\ pc' = "exists"
                /\ UNCHANGED <<files, dirs, docs, reopen, bufferName, req>>
           ELSE IF old_path = EmptyStr /\ activeView /= "none"
           THEN /\ bufferName' = new_path[Len(new_path)]
                /\ log' = Append(log, <<"set_name", new_path[Len(new_path)], 0>>)
                /\ pc' = "buffer"
                /\ UNCHANGED <<files, dirs, docs, reopen, req>>
           ELSE IF session = 0
           THEN LET w == RenameAndNotify(World, attached, didCap, old_path, new_path, params)
                IN  /\ Commit(w)
                    /\ pc' = IF w.raised THEN "raised" ELSE "done"
                    /\ UNCHANGED <<bufferName, req>>
           ELSE /\ req' = [state |-> "pending", session |-> session,
                           old_path |-> old_path, new_path |-> new_path,
                           params |-> params]
                /\ Commit(rename_path(
                       [World EXCEPT !.log = Append(@, <<"willRenameFiles", session, params>>)],
                       old_path, new_path))
                /\ pc' = "sent"
                /\ UNCHANGED bufferName
    /\ UNCHANGED <<Inputs, edit, gvars>>

\* LspRenameFileCommand.run(new_name, dirs, files)
Run ==
    /\ pc = "idle"
    /\ LET session == FirstSession(attached, willCap)
           old_path == get_old_path(argDirs, argFiles, activeView)
           new_path == NewPath(old_path, argNewName)
           params == RenameFilesParams(old_path, new_path)
       IN  IF DestinationExists(World, new_path)
           THEN /\ log' = Append(log, <<"status_message", "Unable to Rename. Already exists", 0>>)
                /\ pc' = "exists"
                /\ UNCHANGED <<files, dirs, docs, reopen, bufferName, req>>
           ELSE IF old_path = EmptyStr /\ activeView /= "none"
           THEN /\ bufferName' = new_path[Len(new_path)]
                /\ log' = Append(log, <<"set_name", new_path[Len(new_path)], 0>>)
                /\ pc' = "buffer"
                /\ UNCHANGED <<files, dirs, docs, reopen, req>>
           ELSE IF session = 0
           THEN LET w == RenameAndNotify(World, attached, didCap, old_path, new_path, params)
                IN  /\ Commit(w)
                    /\ pc' = IF w.raised THEN "raised" ELSE "done"
                    /\ UNCHANGED <<bufferName, req>>
           ELSE /\ req' = [state |-> "pending", session |-> session,
                           old_path |-> old_path, new_path |-> new_path,
                           params |-> params]
                /\ log' = Append(log, <<"willRenameFiles", session, params>>)
                /\ pc' = "sent"
                /\ UNCHANGED <<files, dirs, docs, reopen, bufferName>>
    /\ UNCHANGED <<Inputs, edit, gvars>>

\* the responses a server gives to willRenameFiles: null, a WorkspaceEdit
\* without content ({}), a WorkspaceEdit with content
WillRenameResults == {"null", "empty", "edit"}
Truthy(res) == res = "edit"

\* session.apply_workspace_edit_async(res, is_refactoring=True): returns a
\* promise; the edit lands when that promise resolves, at once or later
ApplyStates == {"pending", "applied"}

\* the response callback of run: LspRenameFileCommand.handle(res, ...)
Handle(res) ==
    /\ pc = "sent"
    /\ req.state = "pending"
    /\ req' = [req EXCEPT !.state = "answered"]
    /\ LET session == SessionByName(attached, req.session)
       IN  IF session /= 0
           THEN \E applied \in ApplyStates, px \in Platforms :
                  LET w0 == IF Truthy(res)
                            THEN [World EXCEPT !.posix = px, !.log =
                                    IF applied = "applied"
                                    THEN @ \o << <<"apply_workspace_edit_async", session, res>>,
                                                 <<"edit applied", session, res>> >>
                                    ELSE Append(@, <<"apply_workspace_edit_async", session, res>>)]
                            ELSE [World EXCEPT !.posix = px]
                      w == RenameAndNotify(w0, attached, didCap, req.old_path,
                                           req.new_path, req.params)
                  IN  /\ Truthy(res) => edit' = applied
                      /\ ~Truthy(res) => edit' = edit /\ applied = "applied"
                      /\ Commit(w)
                      /\ pc' = IF w.raised THEN "raised" ELSE "done"
           ELSE /\ pc' = "dropped"
                /\ UNCHANGED <<files, dirs, docs, reopen, log, edit>>
    /\ UNCHANGED <<Inputs, bufferName, gvars>>

\* the request fails or times out: run passed send_request no error
\* callback, so the session's default error handling runs and handle never
\* does
HandleError ==
    /\ pc = "sent"
    /\ req.state = "pending"
    /\ req' = [req EXCEPT !.state = "failed"]
    /\ pc' = "request failed"
    /\ UNCHANGED <<files, dirs, docs, reopen, log, edit, Inputs, bufferName, gvars>>

\* the promise of apply_workspace_edit_async resolves: the edit has landed
EditApplied ==
    /\ edit = "pending"
    /\ edit' = "applied"
    /\ log' = Append(log, <<"edit applied", req.session, "edit">>)
    /\ UNCHANGED <<files, dirs, docs, reopen, pc, req, Inputs, bufferName, gvars>>

\* as RestoreRegions, without v.sel().clear()
RestoreWithoutClear(opened) ==
    /\ reopen.state = "pending"
    /\ reopen' = [reopen EXCEPT !.state = IF opened THEN "restored" ELSE "no view"]
    /\ docs' = IF opened
               THEN {d \in docs : d.path /= Abs(reopen.path)}
                    \cup {[path |-> Abs(reopen.path),
                           sel |-> FreshSel \cup reopen.old_regions]}
               ELSE docs
    /\ log' = IF opened THEN Append(log, <<"restore_regions", reopen.path, 0>>) ELSE log
    /\ UNCHANGED <<files, dirs, pc, req, edit, Inputs, bufferName, gvars>>

\* the promise of open_file_uri resolves and restore_regions(v) runs; v is
\* None when the document could not be opened
RestoreRegions(opened) ==
    /\ reopen.state = "pending"
    /\ reopen' = [reopen EXCEPT !.state = IF opened THEN "restored" ELSE "no view"]
    /\ docs' = IF opened
               THEN {d \in docs : d.path /= Abs(reopen.path)}
                    \cup {[path |-> Abs(reopen.path), sel |-> reopen.old_regions]}
               ELSE docs
    /\ log' = IF opened THEN Append(log, <<"restore_regions", reopen.path, 0>>) ELSE log
    /\ UNCHANGED <<files, dirs, pc, req, edit, Inputs, bufferName, gvars>>

\* a session ends while the willRenameFiles request is in flight
SessionExit(s) ==
    /\ pc = "sent"
    /\ s \in attached
    /\ attached' = attached \ {s}
    /\ UNCHANGED <<files, dirs, docs, reopen, log, edit, pc, req, bufferName,
                   files0, docs0, created, activeView, willCap, didCap,
                   argDirs, argFiles, argNewName, gvars>>

\* something else (another rename of the window, another program) creates a
\* file at the destination while the willRenameFiles request is in flight
DestinationAppears ==
    /\ pc = "sent"
    /\ req.state = "pending"
    /\ ~Exists(World, req.new_path)
    /\ files' = files \cup {Abs(req.new_path)}
    /\ dirs' = dirs \cup Ancestors(Parent(Abs(req.new_path)))
    /\ created' = TRUE
    /\ UNCHANGED <<docs, reopen, log, edit, pc, req, bufferName, attached,
                   files0, docs0, activeView, willCap, didCap,
                   argDirs, argFiles, argNewName, gvars>>

NextRename ==
    \/ Run
    \/ \E res \in WillRenameResults : Handle(res)
    \/ HandleError
    \/ EditApplied
    \/ \E opened \in BOOLEAN : RestoreRegions(opened)
    \/ \E s \in Sessions : SessionExit(s)
    \/ DestinationAppears

\* no goto command is running
GotoIdle ==
    /\ gotoCap = {}
    /\ method = "textDocument/definition"
    /\ position = NoPosition
    /\ fallback = FALSE
    /\ hasWindow = TRUE
    /\ gpc = "idle"
    /\ sent = <<>>
    /\ last_session = 0
    /\ responses = <<>>
    /\ results = <<>>
    /\ handled = 0
    /\ picker = "none"
    /\ outOfOrder = FALSE
    /\ glog = <<>>

InitRename == RenameInit /\ GotoIdle

SpecRename == InitRename /\ [][NextRename]_vars

\* ------------------------------------------------------- LspGotoCommand
\* Location {uri, range} and LocationLink {targetUri, targetRange,
\* targetSelectionRange, and optionally originSelectionRange}
LocA  == [uri |-> "a.py", range |-> "1:1-1:4"]
LocB  == [uri |-> "b.py", range |-> "2:1-2:4"]
LinkB == [targetUri |-> "b.py", targetRange |-> "2:1-5:1",
          targetSelectionRange |-> "2:1-2:4"]
LinkC == [targetUri |-> "c.py", targetRange |-> "3:1-3:4",
          targetSelectionRange |-> "3:1-3:4", originSelectionRange |-> "7:1-7:4"]

\* GotoResponse = Union[None, Location, List[Location], List[LocationLink]]
None == [kind |-> "null"]
Single(l) == [kind |-> "single", value |-> l]
List(ls) == [kind |-> "list", items |-> ls]
GotoResponses == { None, Single(LocA), List(<<>>), List(<<LocA>>),
                   List(<<LocA, LocB>>), List(<<LinkB, LinkC>>) }
\* a promise that has not resolved
Unresolved == [kind |-> "unresolved"]

Methods == {"textDocument/definition", "textDocument/typeDefinition"}
\* fallback_command of the subclass of the method
FallbackCommand(m) == IF m = "textDocument/definition" THEN "goto_definition" ELSE ""

GotoInit ==
    /\ gotoCap \in SUBSET ViewSessions
    /\ method \in Methods
    /\ position \in {NoPosition, 0, 7}
    /\ fallback \in BOOLEAN
    /\ hasWindow \in BOOLEAN
    /\ gpc = "idle"
    /\ sent = <<>>
    /\ last_session = 0
    /\ responses = <<>>
    /\ results = <<>>
    /\ handled = 0
    /\ picker = "none"
    /\ outOfOrder = FALSE
    /\ glog = <<>>

GotoInputs == <<gotoCap, method, position, fallback, hasWindow>>

\* self.sessions(self.capability): the sessions of the view that advertise
\* the capability, in enumeration order
SessionsWith(cap) == InOrder(cap)

\* text_document_position_params(view, position)
text_document_position_params(pos) == [textDocument |-> "view", position |-> pos]

\* as SendRequests, with the request sent to sessions[0] alone
SendRequestToFirst(sessions, m, params) ==
    << [session |-> sessions[1], method |-> m, params |-> params] >>

\* the loop of run: one Request(self.method, params) to each session
SendRequests(sessions, m, params) ==
    [i \in 1..Len(sessions) |-> [session |-> sessions[i], method |-> m, params |-> params]]

\* _handle_no_results(fallback, side_by_side)
_handle_no_results(lg, fb, m, window) ==
    LET lg1 == Append(lg, <<"_handle_no_results", fb, 0>>)
    IN  IF ~window THEN lg1
        ELSE IF fb /\ FallbackCommand(m) /= ""
        THEN Append(lg1, <<"run_command", FallbackCommand(m), 0>>)
        ELSE Append(lg1, <<"status_message", "No results found", 0>>)

\* Python's truth value of a response: None and the empty list are false
Falsy(response) ==
    \/ response.kind = "null"
    \/ response.kind = "list" /\ response.items = <<>>

RECURSIVE ConvertDistinct(_, _)
\* as ConvertLocations, skipping a location that is in the results already
ConvertDistinct(res, locations) ==
    IF locations = <<>> THEN res
    ELSE LET location == Head(locations)
             link == IF "targetUri" \in DOMAIN location THEN location
                     ELSE [targetUri |-> location.uri,
                           targetRange |-> location.range,
                           targetSelectionRange |-> location.range]
         IN  IF \E k \in DOMAIN res : res[k] = link
             THEN ConvertDistinct(res, Tail(locations))
             ELSE ConvertDistinct(Append(res, link), Tail(locations))

RECURSIVE ConvertWithoutSelection(_, _)
\* as ConvertLocations, with a converted Location given no targetSelectionRange
ConvertWithoutSelection(res, locations) ==
    IF locations = <<>> THEN res
    ELSE LET location == Head(locations)
         IN  IF "targetUri" \in DOMAIN location
             THEN ConvertWithoutSelection(Append(res, location), Tail(locations))
             ELSE ConvertWithoutSelection(
                    Append(res, [targetUri |-> location.uri,
                                 targetRange |-> location.range]),
                    Tail(locations))

RECURSIVE ConvertLocations(_, _)
\* the inner loop of _handle_responses_async
ConvertLocations(res, locations) ==
    IF locations = <<>> THEN res
    ELSE LET location == Head(locations)
         IN  IF "targetUri" \in DOMAIN location
             THEN ConvertLocations(Append(res, location), Tail(locations))
             ELSE ConvertLocations(
                    Append(res, [targetUri |-> location.uri,
                                 targetRange |-> location.range,
                                 targetSelectionRange |-> location.range]),
                    Tail(locations))

RECURSIVE NormalizeFrom(_, _)
\* the outer loop of _handle_responses_async
NormalizeFrom(res, resps) ==
    IF resps = <<>> THEN res
    ELSE LET response == Head(resps)
         IN  IF Falsy(response) THEN NormalizeFrom(res, Tail(resps))
             ELSE LET list == IF response.kind /= "list"
                              THEN <<response.value>>
                              ELSE response.items
                  IN  NormalizeFrom(ConvertLocations(res, list), Tail(resps))

RECURSIVE NormalizePrepending(_)
\* as Normalize, with the links of a response put before those of the
\* responses before it
NormalizePrepending(resps) ==
    IF resps = <<>> THEN <<>>
    ELSE NormalizePrepending(Tail(resps)) \o NormalizeFrom(<<>>, <<Head(resps)>>)

\* "Normalize all responses to LocationLink."
Normalize(resps) == NormalizeFrom(<<>>, resps)

\* as _handle_response_async, with add_jump_record run before the length
\* of the response is looked at
record_then_handle(lg, session, response, fb, m, window) ==
    LET lg1 == Append(lg, <<"add_jump_record", 0, 0>>)
    IN  IF Len(response) = 0
        THEN [log |-> _handle_no_results(lg1, fb, m, window), picker |-> "none"]
        ELSE IF Len(response) = 1
        THEN [log |-> Append(lg1, <<"open_location_async", session, response[1]>>),
              picker |-> "none"]
        ELSE [log |-> lg1, picker |-> "scheduled"]

\* as _handle_response_async, with the location opened before the jump
\* record is made
open_then_record(lg, session, response, fb, m, window) ==
    IF Len(response) = 0
    THEN [log |-> _handle_no_results(lg, fb, m, window), picker |-> "none"]
    ELSE IF Len(response) = 1
    THEN [log |-> lg \o << <<"open_location_async", session, response[1]>>,
                           <<"add_jump_record", 0, 0>> >>,
          picker |-> "none"]
    ELSE [log |-> Append(lg, <<"add_jump_record", 0, 0>>), picker |-> "scheduled"]

\* as _handle_response_async, with len(response) >= 1 for len(response) == 1
open_first_of_any(lg, session, response, fb, m, window) ==
    IF Len(response) = 0
    THEN [log |-> _handle_no_results(lg, fb, m, window), picker |-> "none"]
    ELSE [log |-> lg \o << <<"add_jump_record", 0, 0>>,
                           <<"open_location_async", session, response[1]>> >>,
          picker |-> "none"]

\* _handle_response_async(session, ..., response) for the list that
\* _handle_responses_async passes; gives the call log and the picker
_handle_response_async(lg, session, response, fb, m, window) ==
    IF Len(response) = 0
    THEN [log |-> _handle_no_results(lg, fb, m, window), picker |-> "none"]
    ELSE IF Len(response) = 1
    THEN [log |-> lg \o << <<"add_jump_record", 0, 0>>,
                           <<"open_location_async", session, response[1]>> >>,
          picker |-> "none"]
    ELSE [log |-> Append(lg, <<"add_jump_record", 0, 0>>), picker |-> "scheduled"]

\* as CanDispatch, without the test of the position
CanDispatchAnyPosition(sessions, pos) == sessions /= <<>>

\* the condition of run: sessions and position is not None
CanDispatch(sessions, pos) == sessions /= <<>> /\ pos /= NoPosition

\* as FirstOfSessions, with sessions[-1]
LastOfSessions(sessions) == sessions[Len(sessions)]

\* the session run binds into the continuation: last_session = sessions[0]
FirstOfSessions(sessions) == sessions[1]

\* LspGotoCommand.run
GotoRun ==
    /\ gpc = "idle"
    /\ LET sessions == SessionsWith(gotoCap)
       IN  IF CanDispatch(sessions, position)
           THEN /\ sent' = SendRequests(sessions, method,
                                        text_document_position_params(position))
                /\ last_session' = FirstOfSessions(sessions)
                /\ responses' = [i \in 1..Len(sessions) |-> Unresolved]
                /\ gpc' = "waiting"
                /\ UNCHANGED glog
           ELSE /\ glog' = _handle_no_results(glog, fallback, method, hasWindow)
                /\ gpc' = "done"
                /\ UNCHANGED <<sent, last_session, responses>>
    /\ UNCHANGED <<GotoInputs, results, handled, picker, outOfOrder, rvars>>

\* Promise.all(requests): resolved once every request has resolved, with the
\* responses in the order of the requests
AllResolved(resps) == \A i \in DOMAIN resps : resps[i] /= Unresolved

\* the promise of request i resolves with response r; when it is the last one
\* the promise of Promise.all resolves and _handle_responses_async runs
Resolve(i, r) ==
    /\ gpc = "waiting"
    /\ i \in DOMAIN responses
    /\ responses[i] = Unresolved
    /\ responses' = [responses EXCEPT ![i] = r]
    /\ outOfOrder' = (outOfOrder \/ \E j \in 1..(i - 1) : responses[j] = Unresolved)
    /\ IF AllResolved(responses')
       THEN LET res == Normalize(responses')
                out == _handle_response_async(glog, last_session, res, fallback,
                                              method, hasWindow)
            IN  /\ results' = res
                /\ handled' = handled + 1
                /\ glog' = out.log
                /\ picker' = out.picker
                /\ gpc' = "done"
       ELSE UNCHANGED <<results, handled, glog, picker, gpc>>
    /\ UNCHANGED <<GotoInputs, sent, last_session, rvars>>

\* the promise of request i fails: the promise of Promise.all fails with it
\* and its continuation never runs
Reject(i) ==
    /\ gpc = "waiting"
    /\ i \in DOMAIN responses
    /\ responses[i] = Unresolved
    /\ gpc' = "failed"
    /\ UNCHANGED <<GotoInputs, sent, last_session, responses, results, handled,
                   picker, outOfOrder, glog, rvars>>

\* the callback of sublime.set_timeout: LocationPicker(view, session, response, ...)
ShowPicker ==
    /\ picker = "scheduled"
    /\ picker' = "shown"
    /\ glog' = Append(glog, <<"LocationPicker", last_session, results>>)
    /\ UNCHANGED <<GotoInputs, gpc, sent, last_session, responses, results,
                   handled, outOfOrder, rvars>>

NextGoto ==
    \/ GotoRun
    \/ \E i \in ViewSessions, r \in GotoResponses : Resolve(i, r)
    \/ \E i \in ViewSessions : Reject(i)
    \/ ShowPicker

\* no rename command is running
RenameIdle ==
    /\ files = {}
    /\ files0 = {}
    /\ dirs = {Root}
    /\ docs = {}
    /\ docs0 = {}
    /\ created = FALSE
    /\ activeView = "none"
    /\ bufferName = "untitled"
    /\ attached = {}
    /\ willCap = {}
    /\ didCap = {}
    /\ argDirs = <<>>
    /\ argFiles = <<>>
    /\ argNewName = <<"c.txt">>
    /\ pc = "idle"
    /\ req = NoReq
    /\ edit = "none"
    /\ reopen = NoReopen
    /\ log = <<>>

InitGoto == GotoInit /\ RenameIdle

SpecGoto == InitGoto /\ [][NextGoto]_vars

\* ================================================================ claims
\* the positions of the calls of a name in a call log
Calls(lg, name) == {i \in DOMAIN lg : lg[i][1] = name}

\* the subject path and the destination path of the rename command
OldPath == get_old_path(argDirs, argFiles, activeView)
TargetPath == NewPath(OldPath, argNewName)
\* the file system the command was invoked on
World0 == [files |-> files0, dirs |-> {Root, DirA}]
OnDisk == OldPath /= EmptyStr /\ Abs(OldPath) \in (World0.files \cup World0.dirs)
DestinationExisted == Abs(TargetPath) \in (World0.files \cup World0.dirs)
\* the operation has no handler left to run
Settled == pc \notin {"idle", "sent"}
RenameAttempts == Calls(log, "os.rename") \cup Calls(log, "os.rename raised")

\* C1: when willRenameFiles answered a non-empty WorkspaceEdit, the edit has
\* landed in the documents before the file system rename is performed; the
\* rename never happens while the application of the edit is pending.
C1_EditLandsBeforeRename ==
    \A i \in Calls(log, "os.rename") :
        Calls(log, "apply_workspace_edit_async") /= {} =>
            \E k \in Calls(log, "edit applied") : k < i

\* C2: a rename of an on-disk path to a destination that does not exist ends
\* with the file system rename done and didRenameFiles sent to the sessions
\* advertising didRename, also when the willRenameFiles request failed.
C2_RenameSurvivesRequestFailure ==
    (Settled /\ OnDisk /\ ~DestinationExisted) =>
        /\ Calls(log, "os.rename") /= {}
        /\ \A s \in attached \cap didCap :
              \E i \in Calls(log, "didRenameFiles") : log[i][2] = s

\* C3: when the destination exists the command ends with a status message
\* alone: no willRenameFiles request, no document closed, no directory made,
\* no file system rename attempted, no didRenameFiles notification.
C3_ExistingDestinationAborts ==
    (pc /= "idle" /\ DestinationExisted) =>
        /\ pc = "exists"
        /\ log = << <<"status_message", "Unable to Rename. Already exists", 0>> >>
        /\ files = files0
        /\ dirs = {Root, DirA}
        /\ req = NoReq
        /\ reopen = NoReopen
        /\ bufferName = "untitled"

\* a destination that exists, with a session to ask, sessions to notify and an
\* open document of the subject path
C3_Witness ==
    /\ pc = "exists"
    /\ attached \cap willCap /= {}
    /\ attached \cap didCap /= {}
    /\ OnDisk
    /\ \E d \in docs : d.path = Abs(OldPath)

\* C4: a session gets a didRenameFiles notification exactly when the file
\* system rename has succeeded and the session advertises didRename; it gets
\* one, sent after the rename, with the {oldUri, newUri} of the operation,
\* which are those of the willRenameFiles request when one was sent.
C4_DidRenameIffRenamed ==
    \A s \in Sessions :
        LET got == {i \in Calls(log, "didRenameFiles") : log[i][2] = s}
        IN  /\ Cardinality(got) =
                 IF Calls(log, "os.rename") /= {} /\ s \in attached \cap didCap
                 THEN 1 ELSE 0
            /\ \A i \in got :
                 /\ log[i][3] = [oldUri |-> Uri(OldPath), newUri |-> Uri(TargetPath)]
                 /\ \E j \in Calls(log, "os.rename") : j < i
                 /\ \A k \in Calls(log, "willRenameFiles") : log[k][3] = log[i][3]

\* a rename after a willRenameFiles response, with one session notified and an
\* attached session without didRename left out
C4_Witness ==
    /\ pc = "done"
    /\ Calls(log, "willRenameFiles") /= {}
    /\ Calls(log, "didRenameFiles") /= {}
    /\ attached \ didCap /= {}

\* C5: when the subject path is the empty string the command changes the name
\* of the buffer at most: it sends no willRenameFiles request and no
\* didRenameFiles notification and attempts no file system rename.
C5_EmptyPathRenamesLabelOnly ==
    (pc /= "idle" /\ OldPath = EmptyStr) =>
        /\ Calls(log, "willRenameFiles") = {}
        /\ Calls(log, "didRenameFiles") = {}
        /\ RenameAttempts = {}

\* C6: a dispatch sends one request to each session advertising the
\* capability, in enumeration order, each with the method and the position
\* parameters of the command, and none to any other session; it sends none
\* when no position resolves.
C6_OneRequestPerCapableSession ==
    gpc /= "idle" =>
        IF position = NoPosition THEN sent = <<>>
        ELSE /\ Len(sent) = Cardinality(gotoCap)
             /\ \A i \in DOMAIN sent :
                  /\ sent[i].session \in gotoCap
                  /\ sent[i].method = method
                  /\ sent[i].params = [textDocument |-> "view", position |-> position]
             /\ \A i, j \in DOMAIN sent : i < j => sent[i].session < sent[j].session

\* requests to two sessions and none to a third, for the position 0
C6_Witness ==
    /\ gpc = "waiting"
    /\ Len(sent) >= 2
    /\ gotoCap /= ViewSessions
    /\ position = 0

\* the elements of a response, in its order
Elements(response) ==
    IF response.kind = "list" THEN response.items
    ELSE IF response.kind = "single" THEN <<response.value>>
    ELSE <<>>

\* a Location as the LocationLink it stands for; a LocationLink as it is
AsLink(l) ==
    IF "uri" \in DOMAIN l
    THEN [targetUri |-> l.uri, targetRange |-> l.range, targetSelectionRange |-> l.range]
    ELSE l

RECURSIVE InSessionOrder(_)
\* the elements of the responses, by session and then by place in the response
InSessionOrder(resps) ==
    IF resps = <<>> THEN <<>>
    ELSE Elements(Head(resps)) \o InSessionOrder(Tail(resps))

\* C7: the responses are processed once, and only when all of them have
\* resolved; the merged result lists the locations by session and then by
\* place in the response, whatever order the requests completed in.
C7_ProcessedOnceInSessionOrder ==
    /\ handled <= 1
    /\ gpc = "waiting" => (handled = 0 /\ results = <<>> /\ glog = <<>>)
    /\ gpc = "failed" => (handled = 0 /\ results = <<>> /\ glog = <<>>)
    /\ (sent /= <<>> /\ AllResolved(responses)) => handled = 1
    /\ handled = 1 =>
         /\ AllResolved(responses)
         /\ Len(responses) = Len(sent)
         /\ results = [k \in DOMAIN InSessionOrder(responses) |->
                          AsLink(InSessionOrder(responses)[k])]

\* a later request completed first, and two sessions gave locations
C7_Witness ==
    /\ handled = 1
    /\ outOfOrder
    /\ \E i, j \in DOMAIN responses :
          i < j /\ Elements(responses[i]) /= <<>> /\ Elements(responses[j]) /= <<>>
                /\ Elements(responses[i]) /= Elements(responses[j])

RECURSIVE CountBefore(_, _)
\* how many elements the responses before the i-th hold
CountBefore(resps, i) ==
    IF i <= 1 THEN 0
    ELSE CountBefore(resps, i - 1) + Len(Elements(resps[i - 1]))

\* C8: the output of the normalizer holds every element of every response
\* that is not absent, in order: element j of response i is at place j after
\* the elements of the responses before i, a LocationLink unchanged and a
\* Location as the LocationLink of its uri with its range as targetRange and
\* as targetSelectionRange; nothing is dropped or deduplicated, so the length
\* is the sum of the element counts.
C8_NormalizerConcatenates ==
    /\ Normalize(<<List(<<LocA>>), None, List(<<LinkB, LinkC>>)>>)
         = << [targetUri |-> "a.py", targetRange |-> "1:1-1:4",
               targetSelectionRange |-> "1:1-1:4"], LinkB, LinkC >>
    /\ handled = 1 =>
         /\ Len(results) = CountBefore(responses, Len(responses) + 1)
         /\ \A i \in DOMAIN responses : \A j \in DOMAIN Elements(responses[i]) :
              LET e == Elements(responses[i])[j]
                  out == results[CountBefore(responses, i) + j]
              IN  IF "targetUri" \in DOMAIN e THEN out = e
                  ELSE /\ DOMAIN out = {"targetUri", "targetRange", "targetSelectionRange"}
                       /\ out.targetUri = e.uri
                       /\ out.targetRange = e.range
                       /\ out.targetSelectionRange = e.range

\* two sessions gave the same Location, another response was absent or empty
C8_Witness ==
    /\ handled = 1
    /\ \E i, j \in DOMAIN responses :
          i /= j /\ responses[i] = List(<<LocA>>) /\ responses[j] = Single(LocA)
    /\ \E i \in DOMAIN responses : Elements(responses[i]) = <<>>
    /\ Len(results) = 2

\* response with its j-th element replaced by x
WithElement(response, j, x) ==
    IF response.kind = "list"
    THEN List([response.items EXCEPT ![j] = x])
    ELSE Single(x)

\* C9: a Location and the LocationLink of its uri with its range in both
\* target fields are interchangeable at any place of any response sequence,
\* and normalizing a normalized sequence of LocationLink gives it back.
C9_LocationAndLinkInterchangeable ==
    handled = 1 =>
        /\ \A i \in DOMAIN responses : \A j \in DOMAIN Elements(responses[i]) :
              LET e == Elements(responses[i])[j]
                  link == [targetUri |-> e.uri, targetRange |-> e.range,
                           targetSelectionRange |-> e.range]
              IN  "uri" \in DOMAIN e =>
                     Normalize([responses EXCEPT ![i] = WithElement(@, j, link)])
                       = results
        /\ Normalize(<<List(results)>>) = results

\* a response sequence with a single Location and a list of Location
C9_Witness ==
    /\ handled = 1
    /\ \E i, j \in DOMAIN responses :
          responses[i] = Single(LocA) /\ responses[j] = List(<<LocA, LocB>>)

\* C10: when the merged result is empty the no-results path is taken, once,
\* and no jump record is made, no location opened and no picker shown.
C10_EmptyResultTakesNoResultsPath ==
    (handled = 1 /\ results = <<>>) =>
        /\ Cardinality(Calls(glog, "_handle_no_results")) = 1
        /\ Calls(glog, "add_jump_record") = {}
        /\ Calls(glog, "open_location_async") = {}
        /\ Calls(glog, "LocationPicker") = {}
        /\ picker = "none"
        /\ hasWindow =>
             glog[Len(glog)] = IF fallback /\ method = "textDocument/definition"
                               THEN <<"run_command", "goto_definition", 0>>
                               ELSE <<"status_message", "No results found", 0>>

\* one session answered null and another the empty list
C10_Witness ==
    /\ handled = 1
    /\ results = <<>>
    /\ \E i, j \in DOMAIN responses :
          responses[i] = None /\ responses[j] = List(<<>>)

\* C11: when the merged result holds one LocationLink, one jump record is
\* made, before the navigation is started, the location is opened with
\* open_location_async, and neither the picker nor the no-results path is
\* used.
C11_SingleResultOpensDirectly ==
    (handled = 1 /\ Len(results) = 1) =>
        /\ Cardinality(Calls(glog, "add_jump_record")) = 1
        /\ Cardinality(Calls(glog, "open_location_async")) = 1
        /\ \A i \in Calls(glog, "add_jump_record") :
             \A j \in Calls(glog, "open_location_async") :
                i < j /\ glog[j][3] = results[1]
        /\ Calls(glog, "LocationPicker") = {}
        /\ Calls(glog, "_handle_no_results") = {}
        /\ picker = "none"

\* one Location among the responses of two sessions or more
C11_Witness ==
    /\ handled = 1
    /\ Len(results) = 1
    /\ Len(responses) >= 2
    /\ \E i \in DOMAIN responses : responses[i] = Single(LocA)

\* C12: when no session advertises the capability, or no position resolves,
\* run takes the no-results path at once: no request is sent, no jump record
\* is made and no response is waited for.
C12_NoSessionOrPositionNoRequest ==
    (gpc /= "idle" /\ (gotoCap = {} \/ position = NoPosition)) =>
        /\ gpc = "done"
        /\ sent = <<>>
        /\ responses = <<>>
        /\ handled = 0
        /\ Cardinality(Calls(glog, "_handle_no_results")) = 1
        /\ glog[1] = <<"_handle_no_results", fallback, 0>>
        /\ Calls(glog, "add_jump_record") = {}
        /\ Calls(glog, "open_location_async") = {}
        /\ picker = "none"

\* sessions advertise the capability and no position resolves
C12_Witness ==
    /\ gpc = "done"
    /\ gotoCap /= {}
    /\ position = NoPosition
    /\ hasWindow

\* C18: when the merged result holds more than one LocationLink, one jump
\* record is made, the picker gets all of them in merged order, no location
\* is opened directly and the no-results path is not taken; a dispatch whose
\* responses were processed takes exactly one of the three ways, by the
\* count of the merged result being 0, 1 or more.
C18_ManyResultsGoToPicker ==
    /\ (handled = 1 /\ Len(results) > 1) =>
         /\ Cardinality(Calls(glog, "add_jump_record")) = 1
         /\ Calls(glog, "open_location_async") = {}
         /\ Calls(glog, "_handle_no_results") = {}
         /\ picker \in {"scheduled", "shown"}
         /\ Cardinality(Calls(glog, "LocationPicker")) = IF picker = "shown" THEN 1 ELSE 0
         /\ \A i \in Calls(glog, "LocationPicker") :
              /\ glog[i][3] = results
              /\ \E j \in Calls(glog, "add_jump_record") : j < i
    /\ handled = 1 =>
         /\ (Calls(glog, "_handle_no_results") /= {}) = (Len(results) = 0)
         /\ (Calls(glog, "open_location_async") /= {}) = (Len(results) = 1)
         /\ (picker /= "none") = (Len(results) > 1)

\* the picker shown with the locations of two sessions
C18_Witness ==
    /\ picker = "shown"
    /\ Len(results) = 3
    /\ \E i, j \in DOMAIN responses :
          i < j /\ responses[i] = List(<<LocA, LocB>>) /\ responses[j] = Single(LocA)

\* C20: the session given to open_location_async and to the LocationPicker
\* is the first session, in enumeration order, that advertises the
\* capability, whichever session gave the locations and whatever order the
\* requests completed in.
C20_NavigationUsesFirstSession ==
    \A i \in Calls(glog, "open_location_async") \cup Calls(glog, "LocationPicker") :
        /\ glog[i][2] \in gotoCap
        /\ \A t \in gotoCap : glog[i][2] <= t

\* the location came from a later session, which answered first
C20_Witness ==
    /\ Calls(glog, "open_location_async") /= {}
    /\ outOfOrder
    /\ Cardinality(gotoCap) >= 2
    /\ responses[1] = None

\* the rename gets past the checks of run: the destination does not exist
\* and the subject is not an unsaved buffer
PastPreflight == ~DestinationExisted /\ ~(OldPath = EmptyStr /\ activeView /= "none")
\* the side effects of the physical rename and of the notification
RenameSteps ==
    Calls(log, "close") \cup Calls(log, "makedirs") \cup RenameAttempts
      \cup Calls(log, "open_file_uri") \cup Calls(log, "didRenameFiles")
\* the open document of the subject path when the command was invoked
OldDocs == {d \in docs0 : OldPath /= EmptyStr /\ d.path = Abs(OldPath)}

C14_NoWillRenameSessionStillRenames ==
    (pc /= "idle" /\ willCap = {} /\ OnDisk /\ ~DestinationExisted) =>
        /\ pc = "done"
        /\ Calls(log, "willRenameFiles") = {}
        /\ Calls(log, "apply_workspace_edit_async") = {}
        /\ edit = "none"
        /\ Cardinality(Calls(log, "os.rename")) = 1
        /\ Abs(TargetPath) \in files \cup dirs
        /\ Abs(OldPath) \notin files \cup dirs
        /\ \A s \in attached \cap didCap :
             \E i \in Calls(log, "didRenameFiles") :
                log[i][2] = s /\ \E r \in Calls(log, "os.rename") : r < i

\* a file renamed without a willRename session, with two sessions notified
C14_Witness ==
    /\ pc = "done"
    /\ willCap = {}
    /\ Cardinality(attached \cap didCap) >= 2
    /\ Abs(OldPath) \in files0

\* C15: in the physical rename step the document of the old path is closed
\* before the file system rename is attempted and the new path is opened only
\* after the file system rename has succeeded.
C15_CloseRenameReopenOrder ==
    /\ \A c \in Calls(log, "close") : \A r \in RenameAttempts : c < r
    /\ \A o \in Calls(log, "open_file_uri") :
         /\ \E r \in Calls(log, "os.rename") : r < o
         /\ \A r \in RenameAttempts : r < o
    /\ Calls(log, "os.rename raised") /= {} /\ Calls(log, "os.rename") = {}
         => Calls(log, "open_file_uri") = {}

\* an open document closed, its file renamed and the new path opened
C15_Witness ==
    /\ Calls(log, "close") /= {}
    /\ Calls(log, "os.rename") /= {}
    /\ Calls(log, "open_file_uri") /= {}

\* C16: the selections of the old document are applied to the reopened
\* document only when the reopen has resolved, and the reopened document then
\* has exactly those selections; when the reopen gives no document no
\* selection changes, and the rename and the notifications stand.
C16_SelectionsRestoredAfterReopen ==
    /\ reopen.state = "pending" =>
         /\ Calls(log, "restore_regions") = {}
         /\ docs = docs0 \ OldDocs
    /\ reopen.state = "restored" =>
         /\ Cardinality(Calls(log, "restore_regions")) = 1
         /\ \A i \in Calls(log, "restore_regions") :
              \E o \in Calls(log, "open_file_uri") : o < i
         /\ \E d \in docs :
              /\ d.path = Abs(TargetPath)
              /\ \A d0 \in OldDocs : d.sel = d0.sel
    /\ reopen.state = "no view" =>
         /\ Calls(log, "restore_regions") = {}
         /\ docs = docs0 \ OldDocs
         /\ pc = "done"
         /\ Calls(log, "os.rename") /= {}
         /\ \A s \in attached \cap didCap :
              \E i \in Calls(log, "didRenameFiles") : log[i][2] = s

\* the document of the renamed file reopened with the one region it had
C16_Witness ==
    /\ reopen.state = "restored"
    /\ \E d0 \in OldDocs : d0.sel = {"r1"}
    /\ attached \cap didCap /= {}

\* C17: the new path is opened after the rename only when the subject path
\* had an open document, which the step closed; a rename of a path without an
\* open document opens none and changes no selection.
C17_ReopenOnlyWhatWasOpen ==
    /\ Calls(log, "open_file_uri") /= {} => Calls(log, "close") /= {}
    /\ OldDocs = {} => (reopen = NoReopen /\ docs = docs0)

\* C19: the file system rename is never performed onto a destination that
\* exists at that moment: when the destination was created while the
\* willRenameFiles request was in flight, no os.rename replaces it.
C19_NeverOntoExistingDestination ==
    created => Calls(log, "os.rename") = {}

====
